---- MODULE Spec2Model ----
(***************************************************************************)
(* Model of jules-scratch/verification/verify_system_page.py: a linear     *)
(* Playwright script that logs in, opens the system page, waits for the    *)
(* "Recent Activities" text and screenshots the third matching panel.      *)
(*                                                                         *)
(* The target application, the browser installation and the file system    *)
(* are the script's environment.  They are drawn in Init and stay fixed    *)
(* (a stable target application); the script is then run up to MaxRuns     *)
(* times in a row.  One action models one statement of the script.         *)
(***************************************************************************)
EXTENDS Integers, Sequences, FiniteSets, TLC

\* ---- bounds of the model ------------------------------------------------
MaxRuns == 2
MaxPanels == 3
MaxDim == 2

\* ---- literals of the script ----------------------------------------------
LoginUrl == "http://localhost:5173/login"
DashboardUrl == "http://localhost:5173/dashboard"
SystemUrl == "http://localhost:5173/dashboard/system"
ScreenshotPath == "jules-scratch/verification/verification.png"
LoginTimeout == 60000
PanelIndex == 2

\* ---- the environment -----------------------------------------------------
\* Bounding boxes of panels, abstracted to a small set of sizes.
Dims == 1..MaxDim

\* Statements whose call can fail for a reason the other fields of app do
\* not already describe (browser not installed, page unreachable, labelled
\* field or button missing, output path not writable).  Only the first
\* failing statement of a run matters, so one field names it.
Faults == {"none", "launch", "goto_login", "fill_username", "fill_password",
           "click_login", "goto_system", "screenshot"}

\* Times (ms after the wait starts) at which the Login control may appear.
AttachTimes == {0, LoginTimeout \div 2, 2 * LoginTimeout}

PanelLists == UNION {[1..n -> Dims] : n \in 0..MaxPanels}

Apps == {a \in [hasLogin : BOOLEAN, loginAt : AttachTimes,
                redirectOk : BOOLEAN, textVisible : BOOLEAN,
                panels : PanelLists, fault : Faults] :
           (~a.hasLogin) => a.loginAt = 0}

\* The statements of run() in source order.
StepOrder == <<"launch", "new_context", "new_page", "goto_login",
               "wait_for_selector", "fill_username", "fill_password",
               "click_login", "expect_url", "goto_system", "expect_visible",
               "screenshot", "close">>

VARIABLES app, pc, runNo, playwright, browser, url, waited, trace,
          failedAt, reason, files, captures, exits

vars == <<app, pc, runNo, playwright, browser, url, waited, trace,
          failedAt, reason, files, captures, exits>>

\* ---- helpers -------------------------------------------------------------
InTrace(s) == \E i \in DOMAIN trace : trace[i] = s
Completed(s) == InTrace(s) /\ failedAt # s
Count(s) == Cardinality({i \in DOMAIN trace : trace[i] = s})
IsPrefix(s, t) == Len(s) <= Len(t) /\ \A i \in DOMAIN s : s[i] = t[i]

\* A statement returned normally: control moves to the next statement.
Advance(step, next) ==
    /\ pc' = next
    /\ trace' = Append(trace, step)
    /\ UNCHANGED <<failedAt, reason>>

\* Variant: the exception passes through a cleanup block that closes the
\* browser.
RaiseWithCleanup(step, why) ==
    /\ pc' = "raised"
    /\ trace' = Append(trace, step)
    /\ failedAt' = step
    /\ reason' = why
    /\ browser' = IF browser = "open" THEN "closed" ELSE browser
    /\ UNCHANGED url

\* A statement raised: run() has no try/except/finally, so the exception
\* leaves run() at once and nothing else of run() executes.
Raise(step, why) ==
    /\ pc' = "raised"
    /\ trace' = Append(trace, step)
    /\ failedAt' = step
    /\ reason' = why
    /\ UNCHANGED <<browser, url>>

\* Elements on the current page that match the panel selector.
Matches == IF url = SystemUrl THEN app.panels ELSE <<>>

\* Variant: an out-of-range index falls back to the last match.
NthClamped(elems, n) ==
    IF n + 1 \in DOMAIN elems
    THEN <<[index |-> n, box |-> elems[n + 1]]>>
    ELSE IF Len(elems) > 0
         THEN <<[index |-> Len(elems) - 1, box |-> elems[Len(elems)]]>>
         ELSE <<>>

\* ">> nth=n": the element at zero-based index n of the matches, if any.
Nth(elems, n) ==
    IF n + 1 \in DOMAIN elems
    THEN <<[index |-> n, box |-> elems[n + 1]]>>
    ELSE <<>>

\* Variant: the new file is added next to the old one.
WriteFileKeep(fs, f) == fs \cup {f}

\* screenshot(path=...) replaces whatever file is at the path.
WriteFile(fs, f) == {g \in fs : g.path # f.path} \cup {f}

\* ---- initial state -------------------------------------------------------
Init ==
    /\ app \in Apps
    /\ pc = "sync_playwright"
    /\ runNo = 1
    /\ playwright = "none"
    /\ browser = "none"
    /\ url = "none"
    /\ waited = 0
    /\ trace = <<>>
    /\ failedAt = "none"
    /\ reason = "none"
    /\ files \in {{}} \cup {{[path |-> ScreenshotPath, dims |-> d, run |-> 0]} : d \in Dims}
    /\ captures = <<>>
    /\ exits = <<>>

\* ---- the script, statement by statement ----------------------------------
\* line 29: with sync_playwright() as playwright
SyncPlaywright ==
    /\ pc = "sync_playwright"
    /\ pc' = "launch"
    /\ playwright' = "running"
    /\ UNCHANGED <<app, runNo, browser, url, waited, trace, failedAt, reason,
                   files, captures, exits>>

\* line 4
Launch ==
    /\ pc = "launch"
    /\ IF app.fault = "launch"
       THEN Raise("launch", "error")
       ELSE /\ Advance("launch", "new_context")
            /\ browser' = "open"
            /\ UNCHANGED url
    /\ UNCHANGED <<app, runNo, playwright, waited, files, captures, exits>>

\* line 5
NewContext ==
    /\ pc = "new_context"
    /\ Advance("new_context", "new_page")
    /\ UNCHANGED <<app, runNo, playwright, browser, url, waited, files,
                   captures, exits>>

\* line 6
NewPage ==
    /\ pc = "new_page"
    /\ Advance("new_page", "goto_login")
    /\ url' = "about:blank"
    /\ UNCHANGED <<app, runNo, playwright, browser, waited, files, captures,
                   exits>>

\* line 9
GotoLogin ==
    /\ pc = "goto_login"
    /\ IF app.fault = "goto_login"
       THEN Raise("goto_login", "error")
       ELSE /\ Advance("goto_login", "wait_for_selector")
            /\ url' = LoginUrl
            /\ UNCHANGED browser
    /\ UNCHANGED <<app, runNo, playwright, waited, files, captures, exits>>

\* Variant: the wait has no deadline and returns whatever happens.
WaitForSelectorNoTimeout ==
    /\ pc = "wait_for_selector"
    /\ Advance("wait_for_selector", "fill_username")
    /\ waited' = app.loginAt
    /\ UNCHANGED <<browser, url>>
    /\ UNCHANGED <<app, runNo, playwright, files, captures, exits>>

\* line 10: blocks until the Login button is there or 60000 ms have passed.
WaitForSelector ==
    /\ pc = "wait_for_selector"
    /\ IF app.hasLogin /\ app.loginAt < LoginTimeout
       THEN /\ Advance("wait_for_selector", "fill_username")
            /\ waited' = app.loginAt
            /\ UNCHANGED <<browser, url>>
       ELSE /\ Raise("wait_for_selector", "not_found")
            /\ waited' = LoginTimeout
    /\ UNCHANGED <<app, runNo, playwright, files, captures, exits>>

\* Variant: the failure of the fill is swallowed and the script goes on.
FillUsernameSwallow ==
    /\ pc = "fill_username"
    /\ pc' = "fill_password"
    /\ trace' = Append(trace, "fill_username")
    /\ IF app.fault = "fill_username"
       THEN failedAt' = "fill_username" /\ reason' = "not_found"
       ELSE UNCHANGED <<failedAt, reason>>
    /\ UNCHANGED <<browser, url>>
    /\ UNCHANGED <<app, runNo, playwright, waited, files, captures, exits>>

\* line 11
FillUsername ==
    /\ pc = "fill_username"
    /\ IF app.fault = "fill_username"
       THEN Raise("fill_username", "not_found")
       ELSE /\ Advance("fill_username", "fill_password")
            /\ UNCHANGED <<browser, url>>
    /\ UNCHANGED <<app, runNo, playwright, waited, files, captures, exits>>

\* line 12
FillPassword ==
    /\ pc = "fill_password"
    /\ IF app.fault = "fill_password"
       THEN Raise("fill_password", "not_found")
       ELSE /\ Advance("fill_password", "click_login")
            /\ UNCHANGED <<browser, url>>
    /\ UNCHANGED <<app, runNo, playwright, waited, files, captures, exits>>

\* Variant: the URL assertion is skipped after the click.
ClickLoginSkipAssert ==
    /\ pc = "click_login"
    /\ IF app.fault = "click_login"
       THEN Raise("click_login", "not_found")
       ELSE /\ Advance("click_login", "goto_system")
            /\ url' = IF app.redirectOk THEN DashboardUrl ELSE url
            /\ UNCHANGED browser
    /\ UNCHANGED <<app, runNo, playwright, waited, files, captures, exits>>

\* line 13: the application answers the click by redirecting to the
\* dashboard, or it does not (within the time the next assertion allows).
ClickLogin ==
    /\ pc = "click_login"
    /\ IF app.fault = "click_login"
       THEN Raise("click_login", "not_found")
       ELSE /\ Advance("click_login", "expect_url")
            /\ url' = IF app.redirectOk THEN DashboardUrl ELSE url
            /\ UNCHANGED browser
    /\ UNCHANGED <<app, runNo, playwright, waited, files, captures, exits>>

\* Variant: the assertion compares with the login address.
ExpectUrlWrongAddress ==
    /\ pc = "expect_url"
    /\ IF url = LoginUrl
       THEN /\ Advance("expect_url", "goto_system")
            /\ UNCHANGED <<browser, url>>
       ELSE Raise("expect_url", "url_mismatch")
    /\ UNCHANGED <<app, runNo, playwright, waited, files, captures, exits>>

\* Variant: the assertion never fails.
ExpectUrlNoCheck ==
    /\ pc = "expect_url"
    /\ Advance("expect_url", "goto_system")
    /\ UNCHANGED <<browser, url>>
    /\ UNCHANGED <<app, runNo, playwright, waited, files, captures, exits>>

\* line 16
ExpectUrl ==
    /\ pc = "expect_url"
    /\ IF url = DashboardUrl
       THEN /\ Advance("expect_url", "goto_system")
            /\ UNCHANGED <<browser, url>>
       ELSE Raise("expect_url", "url_mismatch")
    /\ UNCHANGED <<app, runNo, playwright, waited, files, captures, exits>>

\* line 19
GotoSystem ==
    /\ pc = "goto_system"
    /\ IF app.fault = "goto_system"
       THEN Raise("goto_system", "error")
       ELSE /\ Advance("goto_system", "expect_visible")
            /\ url' = SystemUrl
            /\ UNCHANGED browser
    /\ UNCHANGED <<app, runNo, playwright, waited, files, captures, exits>>

\* Variant: the assertion never fails.
ExpectVisibleNoCheck ==
    /\ pc = "expect_visible"
    /\ Advance("expect_visible", "screenshot")
    /\ UNCHANGED <<browser, url>>
    /\ UNCHANGED <<app, runNo, playwright, waited, files, captures, exits>>

\* line 22
ExpectVisible ==
    /\ pc = "expect_visible"
    /\ IF url = SystemUrl /\ app.textVisible
       THEN /\ Advance("expect_visible", "screenshot")
            /\ UNCHANGED <<browser, url>>
       ELSE Raise("expect_visible", "not_visible")
    /\ UNCHANGED <<app, runNo, playwright, waited, files, captures, exits>>

\* line 25
Screenshot ==
    /\ pc = "screenshot"
    /\ LET hit == Nth(Matches, PanelIndex) IN
       IF hit = <<>>
       THEN Raise("screenshot", "not_found") /\ UNCHANGED <<files, captures>>
       ELSE IF app.fault = "screenshot"
       THEN Raise("screenshot", "write_failed") /\ UNCHANGED <<files, captures>>
       ELSE /\ Advance("screenshot", "close")
            /\ files' = WriteFile(files, [path |-> ScreenshotPath,
                                          dims |-> hit[1].box, run |-> runNo])
            /\ captures' = Append(captures, [run |-> runNo,
                                             path |-> ScreenshotPath,
                                             element |-> hit[1].index,
                                             dims |-> hit[1].box])
            /\ UNCHANGED <<browser, url>>
    /\ UNCHANGED <<app, runNo, playwright, waited, exits>>

\* line 27
BrowserClose ==
    /\ pc = "close"
    /\ Advance("close", "returned")
    /\ browser' = "closed"
    /\ UNCHANGED <<app, runNo, playwright, url, waited, files, captures, exits>>

\* lines 29-30: the with block ends, by return or by the exception, and the
\* interpreter exits: status 0 after a return, 1 after an uncaught exception.
ProcessExit ==
    /\ pc \in {"returned", "raised"}
    /\ pc' = "exited"
    /\ playwright' = "stopped"
    /\ exits' = Append(exits, IF pc = "returned" THEN 0 ELSE 1)
    /\ UNCHANGED <<app, runNo, browser, url, waited, trace, failedAt, reason,
                   files, captures>>

\* The operator runs the script again: a fresh process, the same
\* application and the same file system.
RunAgain ==
    /\ pc = "exited"
    /\ runNo < MaxRuns
    /\ runNo' = runNo + 1
    /\ pc' = "sync_playwright"
    /\ playwright' = "none"
    /\ browser' = "none"
    /\ url' = "none"
    /\ waited' = 0
    /\ trace' = <<>>
    /\ failedAt' = "none"
    /\ reason' = "none"
    /\ UNCHANGED <<app, files, captures, exits>>

Next ==
    \/ SyncPlaywright
    \/ Launch
    \/ NewContext
    \/ NewPage
    \/ GotoLogin
    \/ WaitForSelector
    \/ FillUsername
    \/ FillPassword
    \/ ClickLogin
    \/ ExpectUrl
    \/ GotoSystem
    \/ ExpectVisible
    \/ Screenshot
    \/ BrowserClose
    \/ ProcessExit
    \/ RunAgain

Spec == Init /\ [][Next]_vars

\* The script is one thread of a running interpreter: whenever it has a
\* next statement it executes it.
FairSpec == Spec /\ WF_vars(Next)

TypeOK ==
    /\ app \in Apps
    /\ pc \in {"sync_playwright", "returned", "raised", "exited"}
              \cup {StepOrder[i] : i \in DOMAIN StepOrder}
    /\ runNo \in 1..MaxRuns
    /\ playwright \in {"none", "running", "stopped"}
    /\ browser \in {"none", "open", "closed"}
    /\ url \in {"none", "about:blank", LoginUrl, DashboardUrl, SystemUrl}
    /\ waited \in 0..LoginTimeout
    /\ Len(exits) \in {runNo - 1, runNo}

\* ---- vocabulary of the properties ------------------------------------------
Terminal == pc \in {"returned", "raised", "exited"}
Exited == pc = "exited" /\ Len(exits) = runNo
Failed == failedAt # "none"
CapturesOf(r) == {captures[i] : i \in {j \in DOMAIN captures : captures[j].run = r}}
FilesAt(p) == {f \in files : f.path = p}
WroteThisRun == CapturesOf(runNo) # {} \/ \E f \in files : f.run = runNo
LoginInTime == app.hasLogin /\ app.loginAt < LoginTimeout

\* The application does what the script expects of it at its four waits.
AppAsExpected ==
    /\ LoginInTime
    /\ app.redirectOk
    /\ app.textVisible
    /\ Len(app.panels) >= PanelIndex + 1

\* ... and nothing else in the environment fails either.
EnvAsExpected == AppAsExpected /\ app.fault = "none"

Success == Exited /\ exits[runNo] = 0 /\ FilesAt(ScreenshotPath) # {}
                  /\ \A f \in FilesAt(ScreenshotPath) : f.run = runNo

\* ---- C1 ------------------------------------------------------------------
\* C1: whenever run() has ended, by return or by exception, after the
\* browser was launched, the browser has been closed.
C1_ClosedOnEveryExit ==
    (Terminal /\ Completed("launch")) => browser = "closed"

C3_NoLoginControl ==
    (~LoginInTime) =>
        /\ \A s \in {"fill_username", "fill_password", "click_login",
                     "goto_system", "screenshot"} : ~InTrace(s)
        /\ ~WroteThisRun
        /\ pc # "returned"
        /\ InTrace("wait_for_selector") =>
              (failedAt = "wait_for_selector" /\ waited = LoginTimeout)
        /\ Exited => exits[runNo] # 0

C3_Witness ==
    /\ Exited
    /\ app.hasLogin /\ app.loginAt > LoginTimeout
    /\ failedAt = "wait_for_selector"
    /\ exits[runNo] = 1

\* ---- C4 ------------------------------------------------------------------
\* C4: if the click was performed and the application does not redirect to
\* the dashboard address, the run fails at the URL assertion, and the
\* system-page navigation, the visibility check and the screenshot are
\* never issued.
C4_FailsBeforeSystemPage ==
    (Completed("click_login") /\ ~app.redirectOk) =>
        /\ \A s \in {"goto_system", "expect_visible", "screenshot"} : ~InTrace(s)
        /\ ~WroteThisRun
        /\ url # SystemUrl
        /\ Terminal => (failedAt = "expect_url" /\ reason = "url_mismatch")
        /\ Exited => exits[runNo] # 0

C4_Witness ==
    /\ Exited
    /\ Completed("click_login") /\ ~app.redirectOk
    /\ failedAt = "expect_url"
    /\ url = LoginUrl

\* ---- C5 ------------------------------------------------------------------
\* C5: if "Recent Activities" does not become visible, the run fails at the
\* visibility assertion once it gets there and writes no screenshot file.
C5_NoScreenshotWithoutText ==
    (~app.textVisible) =>
        /\ ~InTrace("screenshot")
        /\ ~WroteThisRun
        /\ InTrace("expect_visible") =>
              (failedAt = "expect_visible" /\ reason = "not_visible")
        /\ Exited => exits[runNo] # 0

C5_Witness ==
    /\ Exited
    /\ ~app.textVisible
    /\ failedAt = "expect_visible"
    /\ url = SystemUrl

\* ---- C6 ------------------------------------------------------------------
\* C6: with fewer than three matching panels the screenshot step fails with
\* element-not-found, the run fails and writes no file; and no capture is
\* ever taken of an element other than the one at index 2.
C6_ThirdPanelOrFailure ==
    /\ \A i \in DOMAIN captures : captures[i].element = PanelIndex
    /\ (Len(app.panels) < PanelIndex + 1) =>
          /\ ~WroteThisRun
          /\ pc # "returned"
          /\ InTrace("screenshot") =>
                (failedAt = "screenshot" /\ reason = "not_found")
          /\ Exited => exits[runNo] # 0

C6_Witness ==
    /\ Exited
    /\ Len(app.panels) = PanelIndex
    /\ failedAt = "screenshot" /\ reason = "not_found"
    /\ exits[runNo] = 1

\* ---- C7 ------------------------------------------------------------------
\* C7: when a run succeeded and the script has been run again to the end
\* against the same application, the later run succeeded too, both captured
\* to the fixed path with the same dimensions, and exactly one file is at
\* that path: the later run's, which replaced the earlier run's.
C7_SecondRunOverwrites ==
    (Exited /\ runNo >= 2 /\ exits[runNo - 1] = 0) =>
        /\ exits[runNo] = 0
        /\ Cardinality(CapturesOf(runNo - 1)) = 1
        /\ Cardinality(CapturesOf(runNo)) = 1
        /\ \A c \in CapturesOf(runNo - 1) : \A d \in CapturesOf(runNo) :
              /\ c.path = ScreenshotPath /\ d.path = ScreenshotPath
              /\ c.dims = d.dims
              /\ FilesAt(ScreenshotPath) =
                    {[path |-> ScreenshotPath, dims |-> c.dims, run |-> runNo]}
        /\ Cardinality(files) = 1

C7_Witness ==
    /\ Exited /\ runNo = 2
    /\ exits = <<0, 0>>
    /\ Cardinality(FilesAt(ScreenshotPath)) = 1

\* ---- C8 ------------------------------------------------------------------
\* C8: after a failure at a step following the launch, the browser is still
\* open and close was never executed; close is executed only after the
\* screenshot step completed in a run without failure.
C8_CloseOnlyOnSuccess ==
    /\ (Failed /\ Completed("launch")) => (browser = "open" /\ ~InTrace("close"))
    /\ InTrace("close") => (Completed("screenshot") /\ ~Failed)
    /\ browser = "closed" => InTrace("close")

C8_Witness ==
    /\ Exited
    /\ Failed /\ Completed("launch") /\ Completed("goto_system")
    /\ browser = "open"

\* ---- C9 ------------------------------------------------------------------
\* C9: every step is executed at most once per run; once a step has failed
\* it is the last step executed, run() is over, and the exit status is
\* non-zero.
C9_StopOnFirstFailure ==
    /\ \A i \in DOMAIN StepOrder : Count(StepOrder[i]) <= 1
    /\ Failed =>
          /\ trace # <<>> /\ trace[Len(trace)] = failedAt
          /\ pc \in {"raised", "exited"}
          /\ Exited => exits[runNo] # 0

C9_Witness ==
    /\ Exited
    /\ failedAt = "fill_username"
    /\ trace[Len(trace)] = "fill_username"
    /\ exits[runNo] = 1

\* ---- C10 -----------------------------------------------------------------
\* C10: the steps executed so far are always an initial part of the fixed
\* order; if this run wrote the screenshot, every earlier step completed;
\* if the run exited with status zero, the screenshot was written and the
\* browser was closed exactly once.
C10_FixedOrder ==
    /\ IsPrefix(trace, StepOrder)
    /\ WroteThisRun =>
          \A i \in DOMAIN StepOrder :
              StepOrder[i] # "close" => Completed(StepOrder[i])
    /\ (Exited /\ exits[runNo] = 0) =>
          /\ WroteThisRun
          /\ browser = "closed"
          /\ Count("close") = 1
          /\ trace = StepOrder

C10_Witness ==
    /\ Exited /\ exits[runNo] = 0
    /\ trace = StepOrder
    /\ browser = "closed"
====
